---- MODULE Spec2Model ----
(***************************************************************************)
(* Model of package restclient: Client.Do builds an HTTP message from a    *)
(* Request descriptor, hands it to the transport (http.Client.Do), and     *)
(* resolves the reply into a Response by JSON-decoding the body into the   *)
(* Result or the Error destination, chosen by the status code.             *)
(*                                                                         *)
(* Texts that net/url takes apart (URLs) are sequences of tokens, so that  *)
(* parsing, merging and re-encoding a query string are computed.  JSON     *)
(* texts are strings; what encoding/json makes of each is tabulated.       *)
(***************************************************************************)
EXTENDS Integers, Sequences, FiniteSets, TLC

\* Number of calls to Do started in one behaviour.
MaxCalls == 3

Procs == {"p1", "p2"}
Clients == {"default", "c1", "c2"}

(***************************************************************************)
(* Values of type interface{} held by the Result and Error slots: nil, a   *)
(* pointer to a caller-owned struct, or the generic tree encoding/json     *)
(* builds from a text.  The structs are struct{Msg string; N int} with     *)
(* JSON keys "msg" and "n"; they live in the heap.                         *)
(***************************************************************************)
Cells == {"r1", "e1", "r2", "e2", "d1", "d2"}
ZeroCell == [Msg |-> "", N |-> 0]
NilV == [kind |-> "nil", cell |-> "", text |-> ""]
Ptr(c) == [kind |-> "ptr", cell |-> c, text |-> ""]
Generic(t) == [kind |-> "generic", cell |-> "", text |-> t]
ResCell(p) == IF p = "p1" THEN "r1" ELSE "r2"
ErrCell(p) == IF p = "p1" THEN "e1" ELSE "e2"

\* HTTP verbs.
GET == "GET"
PUT == "PUT"
POST == "POST"
DELETE == "DELETE"
Methods == {GET, PUT, POST, DELETE}

(***************************************************************************)
(* net/url                                                                 *)
(***************************************************************************)
U_Items == <<"http://api.test/items">>
U_Query == <<"http://api.test/items", "?", "a", "=", "1", "&", "q", "=", "old",
             "&", "a", "=", "2">>
U_Escaped == <<"http://api.test/items", "?", "b", "=", "%zz", "&", "c", "=", "x+y">>
U_NoScheme == <<":", "//api.test/items">>
Urls == {U_Items, U_Query, U_Escaped, U_NoScheme}

\* Query keys, in the order sort.Strings gives them.
KeyOrder == <<"a", "b", "c", "q">>
QueryKeys == {KeyOrder[i] : i \in 1..Len(KeyOrder)}

RECURSIVE IndexOf(_, _, _)
\* The first position >= i of token t in s, or 0.
IndexOf(s, t, i) ==
    IF i > Len(s) THEN 0
    ELSE IF s[i] = t THEN i
    ELSE IndexOf(s, t, i + 1)

\* url.Parse: a URL that starts with a colon has no scheme and does not parse;
\* the rest is cut at the first "?" into the part before it and RawQuery.
ParseUrl(raw) ==
    IF raw # <<>> /\ raw[1] = ":"
    THEN [err |-> "url", path |-> <<>>, RawQuery |-> <<>>]
    ELSE LET q == IndexOf(raw, "?", 1) IN
         IF q = 0
         THEN [err |-> "", path |-> raw, RawQuery |-> <<>>]
         ELSE [err |-> "", path |-> SubSeq(raw, 1, q - 1),
               RawQuery |-> SubSeq(raw, q + 1, Len(raw))]

\* URL.String: the query follows a "?" when there is one.
UrlString(u) ==
    IF u.RawQuery = <<>> THEN u.path ELSE u.path \o <<"?">> \o u.RawQuery

\* url.QueryEscape and url.QueryUnescape on the tokens of the model.
QueryEscape(s) == IF s = "x y" THEN "x+y" ELSE s
UnescapeOk(s) == s # "%zz"
QueryUnescape(s) == IF s = "x+y" THEN "x y" ELSE s

NoValues == [k \in QueryKeys |-> <<>>]

RECURSIVE ParseQuery(_)
\* url.ParseQuery as URL.Query uses it: the pairs between "&", each cut at its
\* first "="; a pair that does not unescape is dropped; values of one key
\* are kept in order.
ParseQuery(q) ==
    IF q = <<>> THEN NoValues
    ELSE LET amp == IndexOf(q, "&", 1)
             seg == IF amp = 0 THEN q ELSE SubSeq(q, 1, amp - 1)
             rest == IF amp = 0 THEN <<>> ELSE SubSeq(q, amp + 1, Len(q))
             eq == IndexOf(seg, "=", 1)
             key == IF eq = 1 THEN "" ELSE seg[1]
             val == IF eq = 0 \/ eq = Len(seg) THEN "" ELSE seg[eq + 1]
             more == ParseQuery(rest)
         IN  IF seg = <<>> \/ ~UnescapeOk(key) \/ ~UnescapeOk(val)
                \/ QueryUnescape(key) \notin QueryKeys
             THEN more
             ELSE [more EXCEPT ![QueryUnescape(key)] = <<QueryUnescape(val)>> \o @]

\* Values.Set: the key's values are replaced by the one value.
ValuesSet(vals, k, v) == [vals EXCEPT ![k] = <<v>>]

\* Values.Add: the value is appended to the key's values.
ValuesAdd(vals, k, v) == [vals EXCEPT ![k] = @ \o <<v>>]

RECURSIVE EncodeKey(_, _, _)
\* The pairs key=value of one key, from its i-th value on.
EncodeKey(k, vs, i) ==
    IF i > Len(vs) THEN <<>>
    ELSE <<QueryEscape(k), "=", QueryEscape(vs[i])>>
         \o (IF i < Len(vs) THEN <<"&">> ELSE <<>>)
         \o EncodeKey(k, vs, i + 1)

RECURSIVE EncodeFrom(_, _)
\* Values.Encode: the pairs of every key, keys sorted, joined by "&".
EncodeFrom(vals, i) ==
    IF i > Len(KeyOrder) THEN <<>>
    ELSE LET here == EncodeKey(KeyOrder[i], vals[KeyOrder[i]], 1)
             rest == EncodeFrom(vals, i + 1)
         IN  IF here = <<>> THEN rest
             ELSE IF rest = <<>> THEN here
             ELSE here \o <<"&">> \o rest
Encode(vals) == EncodeFrom(vals, 1)

(***************************************************************************)
(* Request.Params: nil, or a map from keys to values, here a set of pairs. *)
(***************************************************************************)
NoParams == [nil |-> TRUE, m |-> {}]
ParamsOf(m) == [nil |-> FALSE, m |-> m]
ParamChoices == {NoParams, ParamsOf({<<"q", "shoes">>}),
                 ParamsOf({<<"a", "x y">>, <<"c", "5">>})}

RECURSIVE SetAll(_, _)
\* for k, v := range req.Params { vals.Set(k, v) }
SetAll(vals, m) ==
    IF m = {} THEN vals
    ELSE LET kv == CHOOSE x \in m : TRUE
         IN  SetAll(ValuesSet(vals, kv[1], kv[2]), m \ {kv})

RECURSIVE AddAll(_, _)
AddAll(vals, m) ==
    IF m = {} THEN vals
    ELSE LET kv == CHOOSE x \in m : TRUE
         IN  AddAll(ValuesAdd(vals, kv[1], kv[2]), m \ {kv})

\* MergeParams with the Params added to the URL's values instead of set.
MergeParams_Add(u, method, params) ==
    IF method = GET /\ ~params.nil
    THEN [u EXCEPT !.RawQuery = Encode(AddAll(ParseQuery(u.RawQuery), params.m))]
    ELSE u

\* The URL after the GET branch: the query is re-encoded from the URL's own
\* values with the Params set over them; any other request keeps RawQuery.
MergeParams(u, method, params) ==
    IF method = GET /\ ~params.nil
    THEN [u EXCEPT !.RawQuery = Encode(SetAll(ParseQuery(u.RawQuery), params.m))]
    ELSE u

(***************************************************************************)
(* encoding/json                                                           *)
(***************************************************************************)
\* Request.Data: nil, or a Go value named by its literal.
D_Nil == "nil"
D_Widget == "map[string]string{\"name\":\"widget\"}"
D_NilPtr == "(*T)(nil)"
D_Chan == "make(chan int)"
DataChoices == {D_Nil, D_Widget, D_NilPtr, D_Chan}

\* json.Marshal: a channel is not serializable.
Marshal(d) ==
    IF d = D_Widget THEN [err |-> "", b |-> "{\"name\":\"widget\"}"]
    ELSE IF d = D_NilPtr THEN [err |-> "", b |-> "null"]
    ELSE [err |-> "encode", b |-> ""]

\* Response bodies.
B_Empty == ""
B_NotFound == "{\"msg\":\"not found\"}"
B_Count == "{\"n\":7}"
B_Mixed == "{\"msg\":\"x\",\"n\":\"bad\"}"
B_Array == "[1]"
B_Broken == "{bad"
Bodies == {B_Empty, B_NotFound, B_Count, B_Mixed, B_Array, B_Broken}

\* Whether the text is JSON at all (the empty text is not).
JsonValid(t) == t \in {B_NotFound, B_Count, B_Mixed, B_Array}
JsonIsObject(t) == t \in {B_NotFound, B_Count, B_Mixed}

Absent == [present |-> FALSE, t |-> "", s |-> "", n |-> 0]
Str(s) == [present |-> TRUE, t |-> "str", s |-> s, n |-> 0]
Num(n) == [present |-> TRUE, t |-> "num", s |-> "", n |-> n]

\* The members "msg" and "n" of a JSON object text.
JsonFields(t) ==
    IF t = B_NotFound THEN [msg |-> Str("not found"), n |-> Absent]
    ELSE IF t = B_Count THEN [msg |-> Absent, n |-> Num(7)]
    ELSE IF t = B_Mixed THEN [msg |-> Str("x"), n |-> Str("bad")]
    ELSE [msg |-> Absent, n |-> Absent]

\* json.Unmarshal of valid JSON into a *struct{Msg string; N int}: members
\* of the right type are stored, the others are left as they were, and the
\* mismatch is reported after the rest has been decoded.
DecodeStruct(t, cell) ==
    IF ~JsonIsObject(t) THEN [err |-> "type", cell |-> cell]
    ELSE LET f == JsonFields(t)
             msgOk == f.msg.present /\ f.msg.t = "str"
             nOk == f.n.present /\ f.n.t = "num"
             bad == (f.msg.present /\ ~msgOk) \/ (f.n.present /\ ~nOk)
         IN  [err |-> IF bad THEN "type" ELSE "",
              cell |-> [Msg |-> IF msgOk THEN f.msg.s ELSE cell.Msg,
                        N |-> IF nOk THEN f.n.n ELSE cell.N]]

\* json.Unmarshal(data, v) with v a pointer to the interface{} slot holding
\* val: a pointer in the slot is followed and the struct it points to is
\* decoded into; any other slot receives the generic tree.  target is the
\* cell decoded into, if any.
Unmarshal(data, val, h) ==
    IF ~JsonValid(data)
    THEN [err |-> "syntax", val |-> val, heap |-> h, target |-> {}]
    ELSE IF val.kind = "ptr"
    THEN LET r == DecodeStruct(data, h[val.cell])
         IN  [err |-> r.err, val |-> val,
              heap |-> [h EXCEPT ![val.cell] = r.cell], target |-> {val.cell}]
    ELSE [err |-> "", val |-> Generic(data), heap |-> h, target |-> {}]

\* Client.unmarshal: on failure the parameter v is rebound to a new
\* interface{} and the data decoded into that; the caller's slot is not.
unmarshal(data, val, h) ==
    LET first == Unmarshal(data, val, h)
        again == Unmarshal(data, NilV, first.heap)
    IN  IF first.err = "" THEN first
        ELSE [first EXCEPT !.err = again.err]

(***************************************************************************)
(* net/http                                                                *)
(***************************************************************************)
HeaderNames == {"Accept", "Content-Type", "Authorization", "X-Trace"}
EmptyHeader == [n \in HeaderNames |-> <<>>]
HeaderGet(h, n) == IF h[n] = <<>> THEN "" ELSE h[n][1]
HeaderAdd(h, n, v) == [h EXCEPT ![n] = @ \o <<v>>]

\* Request.Headers: nil, or a pointer to a header map.
NoHeaders == [nil |-> TRUE, h |-> EmptyHeader]
HeadersOf(h) == [nil |-> FALSE, h |-> h]
HeaderChoices == {NoHeaders,
                  HeadersOf([EmptyHeader EXCEPT !["Accept"] = <<"text/xml">>]),
                  HeadersOf([EmptyHeader EXCEPT !["X-Trace"] = <<"t1">>])}

\* Request.Userinfo: nil, or url.UserPassword("u", "pw").
NoUser == [nil |-> TRUE, user |-> "", pwd |-> ""]
UserPw == [nil |-> FALSE, user |-> "u", pwd |-> "pw"]
UserChoices == {NoUser, UserPw}

\* Request.SetBasicAuth: "Basic " and the base64 of user:password.
BasicAuth(user, pwd) ==
    IF user = "u" /\ pwd = "pw" THEN "Basic dTpwdw==" ELSE "Basic"

NoMsg == [sent |-> FALSE, Method |-> "", Url |-> <<>>, Header |-> EmptyHeader,
          hasBody |-> FALSE, Body |-> ""]

\* http.NewRequest: a message with a fresh header map.
NewRequest(m, url, hasBody, body) ==
    [sent |-> TRUE, Method |-> m, Url |-> url, Header |-> EmptyHeader,
     hasBody |-> hasBody, Body |-> body]

Descs == [Url : Urls, Method : Methods, Params : ParamChoices,
          Headers : HeaderChoices, Data : DataChoices, Userinfo : UserChoices]
PlainDesc == [Url |-> U_Items, Method |-> GET, Params |-> NoParams,
              Headers |-> NoHeaders, Data |-> D_Nil, Userinfo |-> NoUser]
NoDesc == PlainDesc

(***************************************************************************)
(* The request builder: Client.Do up to the call of the transport.         *)
(***************************************************************************)
\* ApplyDefault with the Client's default put over the caller's destination.
ApplyDefault_Always(reqError, defaultError) == defaultError

\* if req.Error == nil { req.Error = c.DefaultError }
ApplyDefault(reqError, defaultError) ==
    IF reqError = NilV THEN defaultError ELSE reqError

\* NewMessage without the Content-Type header.
NewMessage_NoContentType(d, u) ==
    IF d.Data = D_Nil
    THEN [err |-> "", msg |-> NewRequest(d.Method, UrlString(u), FALSE, "")]
    ELSE LET enc == Marshal(d.Data)
         IN  IF enc.err # "" THEN [err |-> enc.err, msg |-> NoMsg]
             ELSE [err |-> "",
                   msg |-> NewRequest(d.Method, UrlString(u), TRUE, enc.b)]

\* The message for the parsed URL u: without Data it has no body; with Data
\* the body is its JSON encoding and Content-Type is added; an encoding
\* failure ends the call.
NewMessage(d, u) ==
    IF d.Data = D_Nil
    THEN [err |-> "", msg |-> NewRequest(d.Method, UrlString(u), FALSE, "")]
    ELSE LET enc == Marshal(d.Data)
         IN  IF enc.err # "" THEN [err |-> enc.err, msg |-> NoMsg]
             ELSE LET m == NewRequest(d.Method, UrlString(u), TRUE, enc.b)
                  IN  [err |-> "",
                       msg |-> [m EXCEPT !.Header =
                                  HeaderAdd(@, "Content-Type", "application/json")]]

\* if hReq.Header.Get("Accept") == "" { hReq.Header.Add("Accept", ...) }
SetAccept(m) ==
    IF HeaderGet(m.Header, "Accept") = ""
    THEN [m EXCEPT !.Header = HeaderAdd(@, "Accept", "application/json")]
    ELSE m

\* if req.Userinfo != nil { hReq.SetBasicAuth(user, pwd) }
SetAuth(m, ui) ==
    IF ui.nil THEN m
    ELSE [m EXCEPT !.Header["Authorization"] = <<BasicAuth(ui.user, ui.pwd)>>]

\* Build going on to the transport with a URL that did not parse.
Build_IgnoreUrlError(d) ==
    LET u0 == ParseUrl(d.Url)
        nm == NewMessage(d, MergeParams(u0, d.Method, d.Params))
    IN  IF nm.err # "" THEN nm
        ELSE [err |-> "", msg |-> SetAuth(SetAccept(nm.msg), d.Userinfo)]

\* The message Do hands to the transport, or the error it returns instead.
\* Request.Headers is read nowhere.
Build(d) ==
    LET u0 == ParseUrl(d.Url)
    IN  IF u0.err # "" THEN [err |-> u0.err, msg |-> NoMsg]
        ELSE LET nm == NewMessage(d, MergeParams(u0, d.Method, d.Params))
             IN  IF nm.err # "" THEN nm
                 ELSE [err |-> "", msg |-> SetAuth(SetAccept(nm.msg), d.Userinfo)]

(***************************************************************************)
(* The transport's answers to http.Client.Do.                              *)
(***************************************************************************)
NoReply == [kind |-> "none", status |-> 0, body |-> ""]
\* A response whose body reads to the end.
Reply(s, b) == [kind |-> "reply", status |-> s, body |-> b]
\* An error and a nil response: connection refused, DNS failure.
NetErr == [kind |-> "neterr", status |-> 0, body |-> ""]
\* An error together with a response: the redirect policy refused.
RedirErr == [kind |-> "redirerr", status |-> 302, body |-> ""]
\* A response whose body fails while being read.
ReadErr == [kind |-> "readerr", status |-> 200, body |-> ""]
Statuses == {199, 200, 299, 300, 404}
Outcomes == {Reply(s, b) : s \in Statuses, b \in Bodies}
            \cup {NetErr, RedirErr, ReadErr}

(***************************************************************************)
(* The response resolver: Client.Do from the transport's return on.        *)
(***************************************************************************)
NilResp == [nil |-> TRUE, Status |-> 0, Result |-> NilV, Error |-> NilV,
            RawText |-> ""]

\* IsSuccess with the upper end of the range included.
IsSuccess_Upto300(status) == status >= 200 /\ status <= 300

\* resp.Status >= 200 && resp.Status < 300
IsSuccess(status) == status >= 200 /\ status < 300

\* NoData never taking the short cut.
NoData_Never(rawText) == FALSE

\* resp.RawText == ""
NoData(rawText) == rawText = ""

\* What Do does with the transport's answer o for the request destinations
\* rq, on heap h: how the call ends, the *Response and error it returns, the
\* heap after it, and the cells it decoded into.
Resolve(o, rq, h) ==
    IF o.kind = "neterr"
    THEN \* complain(err, hResp.StatusCode, "") with hResp nil
         [pc |-> "panic", ret |-> NilResp, err |-> "", heap |-> h, wrote |-> {}]
    ELSE IF o.kind = "redirerr"
    THEN [pc |-> "done", ret |-> NilResp, err |-> "transport", heap |-> h,
          wrote |-> {}]
    ELSE LET resp == [nil |-> FALSE, Status |-> o.status, Result |-> rq.Result,
                      Error |-> rq.Error, RawText |-> ""]
         IN  IF o.kind = "readerr"
             THEN [pc |-> "done", ret |-> resp, err |-> "read", heap |-> h,
                   wrote |-> {}]
             ELSE IF NoData(o.body)
             THEN [pc |-> "done", ret |-> [resp EXCEPT !.RawText = o.body],
                   err |-> "", heap |-> h, wrote |-> {}]
             ELSE IF IsSuccess(o.status)
             THEN LET r == unmarshal(o.body, resp.Result, h)
                  IN  [pc |-> "done",
                       ret |-> [resp EXCEPT !.RawText = o.body, !.Result = r.val],
                       err |-> r.err, heap |-> r.heap, wrote |-> r.target]
             ELSE LET r == unmarshal(o.body, resp.Error, h)
                  IN  [pc |-> "done",
                       ret |-> [resp EXCEPT !.RawText = o.body, !.Error = r.val],
                       err |-> r.err, heap |-> r.heap, wrote |-> r.target]

(***************************************************************************)
(* State                                                                   *)
(***************************************************************************)
VARIABLES
    client,    \* the Clients: their DefaultError
    heap,      \* the structs the destinations point to
    req,       \* each caller's Request descriptor: its Result and Error
    pc,        \* where each caller's call to Do is
    cli,       \* the Client the call is on
    desc,      \* the descriptor's fields the builder reads
    entryErr,  \* req.Error when Do was entered
    hReq,      \* the message built for the transport
    sends,     \* how often the call has invoked the transport
    reply,     \* the transport's answer
    ret,       \* the *Response Do returned
    err,       \* the error Do returned ("" is nil)
    pre,       \* the heap when the resolver started
    wrote,     \* the cells the call decoded into
    calls      \* calls started so far

vars == <<client, heap, req, pc, cli, desc, entryErr, hReq, sends, reply, ret,
          err, pre, wrote, calls>>

ZeroHeap == [c \in Cells |-> ZeroCell]

\* New() leaves DefaultError nil, and so is the package's defaultClient; c1
\* and c2 were given pointers to their own error structs.
InitClient ==
    [c \in Clients |->
        [DefaultError |-> IF c = "c1" THEN Ptr("d1")
                          ELSE IF c = "c2" THEN Ptr("d2") ELSE NilV]]

Init ==
    /\ client = InitClient
    /\ heap = ZeroHeap
    /\ req = [p \in Procs |-> [Result |-> NilV, Error |-> NilV]]
    /\ pc = [p \in Procs |-> "idle"]
    /\ cli = [p \in Procs |-> "default"]
    /\ desc = [p \in Procs |-> NoDesc]
    /\ entryErr = [p \in Procs |-> NilV]
    /\ hReq = [p \in Procs |-> NoMsg]
    /\ sends = [p \in Procs |-> 0]
    /\ reply = [p \in Procs |-> NoReply]
    /\ ret = [p \in Procs |-> NilResp]
    /\ err = [p \in Procs |-> ""]
    /\ pre = [p \in Procs |-> ZeroHeap]
    /\ wrote = [p \in Procs |-> {}]
    /\ calls = 0

\* The caller fills in a Request: each destination is nil or a pointer to a
\* new struct of its own.
MakeRequest(p, withResult, withError) ==
    /\ pc[p] = "idle"
    /\ calls < MaxCalls
    /\ req' = [req EXCEPT ![p] =
                 [Result |-> IF withResult THEN Ptr(ResCell(p)) ELSE NilV,
                  Error |-> IF withError THEN Ptr(ErrCell(p)) ELSE NilV]]
    /\ heap' = [heap EXCEPT ![ResCell(p)] = ZeroCell, ![ErrCell(p)] = ZeroCell]
    /\ UNCHANGED <<client, pc, cli, desc, entryErr, hReq, sends, reply, ret,
                   err, pre, wrote, calls>>

\* c.Do(req) up to c.HttpClient.Do(hReq): the default error destination is
\* stored in the descriptor, the message is built and, unless building
\* failed, handed to the transport.
DoBuild(p, c, d) ==
    /\ pc[p] = "idle"
    /\ calls < MaxCalls
    /\ calls' = calls + 1
    /\ cli' = [cli EXCEPT ![p] = c]
    /\ desc' = [desc EXCEPT ![p] = d]
    /\ entryErr' = [entryErr EXCEPT ![p] = req[p].Error]
    /\ req' = [req EXCEPT ![p].Error = ApplyDefault(@, client[c].DefaultError)]
    /\ LET b == Build(d)
       IN  IF b.err # ""
           THEN /\ pc' = [pc EXCEPT ![p] = "done"]
                /\ err' = [err EXCEPT ![p] = b.err]
                /\ UNCHANGED <<hReq, sends>>
           ELSE /\ pc' = [pc EXCEPT ![p] = "sent"]
                /\ hReq' = [hReq EXCEPT ![p] = b.msg]
                /\ sends' = [sends EXCEPT ![p] = @ + 1]
                /\ UNCHANGED err
    /\ UNCHANGED <<client, heap, reply, ret, pre, wrote>>

\* c.HttpClient.Do(hReq) returns.
Transport(p, o) ==
    /\ pc[p] = "sent"
    /\ pc' = [pc EXCEPT ![p] = "replied"]
    /\ reply' = [reply EXCEPT ![p] = o]
    /\ UNCHANGED <<client, heap, req, cli, desc, entryErr, hReq, sends, ret,
                   err, pre, wrote, calls>>

\* c.Do(req) from the transport's return to its own.
DoResolve(p) ==
    /\ pc[p] = "replied"
    /\ LET r == Resolve(reply[p], req[p], heap)
       IN  /\ pc' = [pc EXCEPT ![p] = r.pc]
           /\ ret' = [ret EXCEPT ![p] = r.ret]
           /\ err' = [err EXCEPT ![p] = r.err]
           /\ heap' = r.heap
           /\ wrote' = [wrote EXCEPT ![p] = r.wrote]
    /\ pre' = [pre EXCEPT ![p] = heap]
    /\ UNCHANGED <<client, req, cli, desc, entryErr, hReq, sends, reply, calls>>

\* The caller has the result and is free to call again, with the same
\* descriptor or a new one.
Return(p) ==
    /\ pc[p] = "done"
    /\ pc' = [pc EXCEPT ![p] = "idle"]
    /\ cli' = [cli EXCEPT ![p] = "default"]
    /\ desc' = [desc EXCEPT ![p] = NoDesc]
    /\ entryErr' = [entryErr EXCEPT ![p] = NilV]
    /\ hReq' = [hReq EXCEPT ![p] = NoMsg]
    /\ sends' = [sends EXCEPT ![p] = 0]
    /\ reply' = [reply EXCEPT ![p] = NoReply]
    /\ ret' = [ret EXCEPT ![p] = NilResp]
    /\ err' = [err EXCEPT ![p] = ""]
    /\ pre' = [pre EXCEPT ![p] = ZeroHeap]
    /\ wrote' = [wrote EXCEPT ![p] = {}]
    /\ UNCHANGED <<client, heap, req, calls>>

\* One caller after another call, on any Client, with every answer of the
\* transport; the requests are a plain GET, one whose URL does not parse,
\* and POSTs with and without a serializable payload.
SeqDescs == {PlainDesc,
             [PlainDesc EXCEPT !.Url = U_NoScheme],
             [PlainDesc EXCEPT !.Method = POST, !.Data = D_Widget],
             [PlainDesc EXCEPT !.Method = POST, !.Data = D_Chan]}

Next ==
    \E p \in {"p1"} :
        \/ \E a, b \in BOOLEAN : MakeRequest(p, a, b)
        \/ \E c \in Clients, d \in SeqDescs : DoBuild(p, c, d)
        \/ \E o \in Outcomes : Transport(p, o)
        \/ DoResolve(p)
        \/ Return(p)

Spec == Init /\ [][Next]_vars

\* One caller with every request descriptor, on the package's Client.
BuildOutcomes == {Reply(200, B_Empty), NetErr}

NextBuild ==
    \E p \in {"p1"} :
        \/ MakeRequest(p, TRUE, TRUE)
        \/ \E d \in Descs : DoBuild(p, "default", d)
        \/ \E o \in BuildOutcomes : Transport(p, o)
        \/ DoResolve(p)
        \/ Return(p)

SpecBuild == Init /\ [][NextBuild]_vars

\* Two callers at once on the Client c1, each with its own descriptor.
ConcOutcomes == {Reply(s, b) : s \in {200, 404}, b \in {B_Empty, B_NotFound, B_Count}}
                \cup {NetErr}

NextConc ==
    \E p \in Procs :
        \/ \E a, b \in BOOLEAN : MakeRequest(p, a, b)
        \/ DoBuild(p, "c1", PlainDesc)
        \/ \E o \in ConcOutcomes : Transport(p, o)
        \/ DoResolve(p)
        \/ Return(p)

SpecConc == Init /\ [][NextConc]_vars

(***************************************************************************)
(* Properties                                                              *)
(***************************************************************************)
\* A call that has come back with a Response read from a reply.
Answered(p) == pc[p] = "done" /\ reply[p].kind = "reply"

\* The cell a slot points to, if it points to one.
CellOf(v) == IF v.kind = "ptr" THEN {v.cell} ELSE {}

\* C1: after a reply with a non-empty body, a status in [200,300) has the
\* body decoded into the Result destination and leaves the Error slot and
\* what it points to as they were, any other status has it decoded into the
\* Error destination and leaves the Result slot and what it points to as they
\* were; Response.Status is the reply's status.  A destination that is a
\* pointer to a struct receives the members of the body; a nil destination
\* receives the generic value of the body.
C1_StatusSelectsSlot ==
    \A p \in Procs :
        (Answered(p) /\ reply[p].body # "") =>
            LET s == reply[p].status
                b == reply[p].body
                ok == s >= 200 /\ s < 300
                chosen == IF ok THEN req[p].Result ELSE req[p].Error
                other == IF ok THEN req[p].Error ELSE req[p].Result
                gotChosen == IF ok THEN ret[p].Result ELSE ret[p].Error
                gotOther == IF ok THEN ret[p].Error ELSE ret[p].Result
            IN  /\ ~ret[p].nil
                /\ ret[p].Status = s
                /\ ret[p].RawText = b
                /\ gotOther = other
                /\ \A c \in Cells \ CellOf(chosen) : heap[c] = pre[p][c]
                /\ (chosen.kind = "nil" /\ JsonValid(b)) =>
                       gotChosen = Generic(b) /\ err[p] = ""
                /\ (chosen.kind = "ptr" /\ b = B_NotFound) =>
                       /\ gotChosen = chosen
                       /\ err[p] = ""
                       /\ heap[chosen.cell] =
                              [pre[p][chosen.cell] EXCEPT !.Msg = "not found"]
                /\ (chosen.kind = "ptr" /\ b = B_Count) =>
                       /\ gotChosen = chosen
                       /\ err[p] = ""
                       /\ heap[chosen.cell] = [pre[p][chosen.cell] EXCEPT !.N = 7]

\* Status 404 with body {"msg":"not found"}: the error struct holds the
\* message, the Result slot and its struct are as the caller made them.
C1_Witness ==
    \E p \in Procs :
        /\ pc[p] = "done"
        /\ reply[p] = Reply(404, B_NotFound)
        /\ req[p] = [Result |-> Ptr(ResCell(p)), Error |-> Ptr(ErrCell(p))]
        /\ ret[p].Status = 404
        /\ ret[p].Error = Ptr(ErrCell(p))
        /\ heap[ErrCell(p)] = [Msg |-> "not found", N |-> 0]
        /\ ret[p].Result = Ptr(ResCell(p))
        /\ heap[ResCell(p)] = ZeroCell

\* C2: when a body that is JSON does not fit the struct the chosen
\* destination points to, Do returns no error and the chosen slot of the
\* Response holds the generic value of the body; Do returns a decode error
\* only for a body that is not JSON at all.
C2_FallbackReturnsGeneric ==
    \A p \in Procs :
        (Answered(p) /\ reply[p].body # "") =>
            LET b == reply[p].body
                ok == IsSuccess(reply[p].status)
                chosen == IF ok THEN req[p].Result ELSE req[p].Error
                gotChosen == IF ok THEN ret[p].Result ELSE ret[p].Error
            IN  /\ (err[p] # "") => ~JsonValid(b)
                /\ (/\ JsonValid(b)
                    /\ chosen.kind = "ptr"
                    /\ DecodeStruct(b, pre[p][chosen.cell]).err # "") =>
                       err[p] = "" /\ gotChosen = Generic(b)

\* C3: when the transport fails without a response, Do returns a nil
\* Response and the transport's error.
C3_TransportFailureReturnsError ==
    \A p \in Procs :
        (reply[p].kind = "neterr" /\ pc[p] # "replied") =>
            pc[p] = "done" /\ ret[p].nil /\ err[p] = "transport"

\* C4: a reply with an empty body, whatever its status, is not decoded: the
\* Response has the reply's status, the empty RawText and the request's
\* Result and Error slots, the error is nil and no struct has changed.
C4_EmptyBodyUntouched ==
    \A p \in Procs :
        (Answered(p) /\ reply[p].body = "") =>
            /\ ret[p] = [nil |-> FALSE, Status |-> reply[p].status,
                         Result |-> req[p].Result, Error |-> req[p].Error,
                         RawText |-> ""]
            /\ err[p] = ""
            /\ heap = pre[p]
            /\ wrote[p] = {}

\* Status 200 with an empty body, for a request with both destinations set.
C4_Witness ==
    \E p \in Procs :
        /\ pc[p] = "done"
        /\ reply[p] = Reply(200, B_Empty)
        /\ req[p] = [Result |-> Ptr(ResCell(p)), Error |-> Ptr(ErrCell(p))]
        /\ ret[p].Status = 200
        /\ ret[p].RawText = ""
        /\ ret[p].Result = Ptr(ResCell(p))
        /\ ret[p].Error = Ptr(ErrCell(p))
        /\ err[p] = ""

\* The value Params gives key k, as a sequence: empty when it gives none.
ParamValue(params, k) ==
    IF \E kv \in params.m : kv[1] = k
    THEN <<(CHOOSE kv \in params.m : kv[1] = k)[2]>>
    ELSE <<>>

\* C5: the query of the outgoing URL, read back key by key, is for a GET with
\* Params the value Params gives the key, or the URL's own values of a key
\* Params does not name; for any other request the outgoing URL is the raw
\* URL string, query included.
C5_QueryByMethod ==
    \A p \in Procs :
        hReq[p].sent =>
            LET d == desc[p]
                own == ParseQuery(ParseUrl(d.Url).RawQuery)
                out == ParseQuery(ParseUrl(hReq[p].Url).RawQuery)
            IN  IF d.Method = GET /\ ~d.Params.nil
                THEN \A k \in QueryKeys :
                         out[k] = IF ParamValue(d.Params, k) # <<>>
                                  THEN ParamValue(d.Params, k)
                                  ELSE own[k]
                ELSE hReq[p].Url = d.Url

\* GET of ...?a=1&q=old&a=2 with Params {a: "x y", c: "5"}.
C5_Witness ==
    \E p \in Procs :
        /\ pc[p] = "sent"
        /\ desc[p].Method = GET
        /\ desc[p].Url = U_Query
        /\ desc[p].Params = ParamsOf({<<"a", "x y">>, <<"c", "5">>})
        /\ hReq[p].Url = <<"http://api.test/items", "?", "a", "=", "x+y", "&",
                           "c", "=", "5", "&", "q", "=", "old">>

\* Whether json.Marshal encodes the payload.
Encodes(data) == data \in {D_Widget, D_NilPtr}

\* C6: an outgoing message for a request with Data has the JSON encoding of
\* Data as its body and Content-Type: application/json; one for a request
\* without Data has no body and no Content-Type; a request whose Data does
\* not encode gets no message and no Response but an error, the encoding
\* error if its URL parses; every other request whose URL parses gets a
\* message.
C6_PayloadBecomesBody ==
    \A p \in Procs :
        pc[p] # "idle" =>
            LET d == desc[p]
                m == hReq[p]
                urlOk == d.Url # U_NoScheme
            IN  /\ (m.sent /\ d.Data = D_Widget) =>
                       m.hasBody /\ m.Body = "{\"name\":\"widget\"}"
                /\ (m.sent /\ d.Data = D_NilPtr) => m.hasBody /\ m.Body = "null"
                /\ (m.sent /\ d.Data # D_Nil) =>
                       m.Header["Content-Type"] = <<"application/json">>
                /\ (m.sent /\ d.Data = D_Nil) =>
                       ~m.hasBody /\ m.Header["Content-Type"] = <<>>
                /\ (d.Data # D_Nil /\ ~Encodes(d.Data)) =>
                       /\ ~m.sent
                       /\ pc[p] = "done"
                       /\ ret[p].nil
                       /\ err[p] = IF urlOk THEN "encode" ELSE "url"
                /\ (urlOk /\ (d.Data = D_Nil \/ Encodes(d.Data))) => m.sent

\* POST of {"name":"widget"}.
C6_Witness ==
    \E p \in Procs :
        /\ pc[p] = "sent"
        /\ desc[p].Method = POST
        /\ desc[p].Data = D_Widget
        /\ hReq[p].Body = "{\"name\":\"widget\"}"
        /\ hReq[p].Header["Content-Type"] = <<"application/json">>

\* C7: the outgoing Accept is application/json exactly when Request.Headers
\* has no Accept, and every header of Request.Headers is on the outgoing
\* message with the caller's value.
C7_CallerHeadersKept ==
    \A p \in Procs :
        hReq[p].sent =>
            LET hs == desc[p].Headers
                mine == IF hs.nil THEN EmptyHeader ELSE hs.h
            IN  /\ (mine["Accept"] = <<>>) <=>
                       (hReq[p].Header["Accept"] = <<"application/json">>)
                /\ \A n \in HeaderNames :
                       mine[n] # <<>> => hReq[p].Header[n] = mine[n]

\* C8: from the defaulting on, the descriptor's error destination is the
\* Client's DefaultError if it was nil when Do was entered and what it was
\* otherwise; the Response reports it, unless it is no pointer and an error
\* body was decoded, and then it reports the generic value of that body.
C8_DefaultErrorOnlyWhenUnset ==
    \A p \in Procs :
        pc[p] # "idle" =>
            LET want == IF entryErr[p] = NilV
                        THEN client[cli[p]].DefaultError
                        ELSE entryErr[p]
                b == reply[p].body
            IN  /\ req[p].Error = want
                /\ (pc[p] = "done" /\ ~ret[p].nil) =>
                       ret[p].Error =
                           IF /\ reply[p].kind = "reply"
                              /\ ~(reply[p].status >= 200 /\ reply[p].status < 300)
                              /\ JsonValid(b)
                              /\ want.kind # "ptr"
                           THEN Generic(b)
                           ELSE want

\* A descriptor that took c1's default in an earlier call is used on c2: its
\* error destination is still c1's.
C8_Witness ==
    \E p \in Procs :
        /\ pc[p] = "done"
        /\ calls >= 2
        /\ cli[p] = "c2"
        /\ entryErr[p] = client["c1"].DefaultError
        /\ req[p].Error = Ptr("d1")
        /\ ~ret[p].nil
        /\ ret[p].Error = Ptr("d1")

\* C9: Do writes neither a Client's fields nor the value its DefaultError
\* points to, and two calls in progress on one Client with descriptors of
\* their own decode into different structs.
C9_NoSharedWrites ==
    /\ client = InitClient
    /\ \A c \in Clients : \A d \in CellOf(client[c].DefaultError) :
           heap[d] = ZeroCell
    /\ \A p, q \in Procs : p # q => wrote[p] \cap wrote[q] = {}

\* C10: a call invokes the transport at most once, and only with a URL that
\* parsed and a payload that encoded; a call whose URL does not parse or
\* whose payload does not encode ends with an error, a nil Response and no
\* invocation of the transport; the transport answers only a call that
\* invoked it, and a Response is made and a struct decoded into only after
\* the transport returned a response.
C10_LinearPass ==
    \A p \in Procs :
        LET d == desc[p]
            buildOk == ParseUrl(d.Url).err = ""
                       /\ (d.Data = D_Nil \/ Marshal(d.Data).err = "")
        IN  /\ sends[p] <= 1
            /\ sends[p] = 1 => buildOk /\ hReq[p].sent
            /\ (pc[p] # "idle" /\ ~buildOk) =>
                   /\ pc[p] = "done"
                   /\ sends[p] = 0
                   /\ reply[p] = NoReply
                   /\ ret[p].nil
                   /\ err[p] \in {"url", "encode"}
            /\ reply[p] # NoReply => sends[p] = 1
            /\ pc[p] = "sent" => reply[p] = NoReply
            /\ (~ret[p].nil \/ wrote[p] # {}) =>
                   reply[p].kind \in {"reply", "readerr"}

\* A POST whose payload is a channel: no transport, no Response, the
\* encoding error.
C10_Witness ==
    \E p \in Procs :
        /\ pc[p] = "done"
        /\ desc[p].Data = D_Chan
        /\ err[p] = "encode"
        /\ sends[p] = 0
        /\ ret[p].nil
        /\ reply[p] = NoReply
====
